---- MODULE Spec2Model ----
(***************************************************************************)
(* Model of backend/annotate_video.py: the command-line driver main(),     *)
(* and the VideoAnnotator methods load_prompt, annotate_video and          *)
(* save_results.                                                           *)
(*                                                                         *)
(* One run of the script is a process r \in Runs whose position is pc[r].  *)
(* Runs share the file system (prompts, videos, files) and the wall clock. *)
(* A run starts after argparse has accepted the command line (args[r]).    *)
(*                                                                         *)
(* Conventions                                                             *)
(*   - an optional value is a sequence: <<>> is Python's None, <<v>> is v; *)
(*   - a text is a sequence of tokens; "CR" and "LF" are the carriage      *)
(*     return and the line feed, "T" is the fallback sentence of           *)
(*     load_prompt taken as one piece of text without a line ending;       *)
(*   - floats are counted in tenths (FPS 1.0 is 10, TEMPERATURE 0.3 is 3); *)
(*   - the clock counts ticks, TicksPerSecond of them to the second;       *)
(*   - a log entry is [level, line, data]: the level and the source line   *)
(*     of the logger call that emitted it (INFO and above, as configured), *)
(*     and the values its message holds where a property reads them.       *)
(***************************************************************************)
EXTENDS Integers, Sequences, FiniteSets, TLC

VARIABLES
    prompts,     \* file system: prompt path -> state of the file there
    videos,      \* file system: video path -> "missing", "small", "large"
    files,       \* file system: the files of the outputs directory
    clock,       \* wall clock, in ticks
    args,        \* args[r]: the parsed command line of run r
    pc,          \* pc[r]: position of run r
    annotator,   \* annotator[r]: fields of the VideoAnnotator (<<>> before construction)
    prompt,      \* prompt[r]: main's local `prompt`, then annotate_video's prompt_text
    sent,        \* sent[r]: the requests run r passed to MultiModalConversation.call
    start_time,  \* start_time[r]: clock read before the call
    response,    \* response[r]: what the call returned (<<>> if nothing)
    result,      \* result[r]: what annotate_video returned (<<>> if nothing)
    exc,         \* exc[r]: the exception raised in run r (type "" if none)
    saved,       \* saved[r]: locals of save_results (timestamp, json_path, txt_path)
    log,         \* log[r]: entries run r emitted through logger
    exit_code    \* exit_code[r]: process exit status (<<>> while running)

vars == <<prompts, videos, files, clock, args, pc, annotator, prompt, sent,
          start_time, response, result, exc, saved, log, exit_code>>

-----------------------------------------------------------------------------
(* Bounds of the model *)

MaxLen == 2

MaxClock == 2

TicksPerSecond == 2

Runs == {1, 2}

(* Program constants, lines 24-31 *)

MODEL == "qwen-vl-max-latest"

FPS == 10

TEMPERATURE == 3

MAX_TOKENS == 4000

None == <<>>

Some(v) == <<v>>

-----------------------------------------------------------------------------
(* Texts and files *)

Tokens == {"T", "CR", "LF"}

RECURSIVE SeqsUpTo(_, _)
SeqsUpTo(S, n) ==
    IF n = 0 THEN {<<>>}
    ELSE LET shorter == SeqsUpTo(S, n - 1)
         IN  shorter \cup {Append(s, x) : s \in {t \in shorter : Len(t) = n - 1}, x \in S}

Contents == SeqsUpTo(Tokens, MaxLen)

Missing == [kind |-> "missing"]

Unreadable == [kind |-> "unreadable"]

TextFile(data) == [kind |-> "file", data |-> data]

FileStates == {Missing, Unreadable} \cup {TextFile(d) : d \in Contents}

\* line 73: self.prompts_dir / 'pov_annotation_prompt.txt'
DefaultPromptPath == <<"prompts", "pov_annotation_prompt.txt">>

CustomPromptPath == <<"my_prompt.txt">>

PromptPaths == {DefaultPromptPath, CustomPromptPath}

\* line 81: the fallback instruction
FallbackPrompt == <<"T">>

\* A video path: absolute or relative, directories, and the file name as
\* tokens (the dots are tokens of their own).
Videos ==
    { [abs |-> FALSE, dirs |-> <<"videos">>, name |-> <<"clip", ".", "mp4">>],
      [abs |-> TRUE,  dirs |-> <<"data">>,   name |-> <<"clip", ".", "avi">>],
      [abs |-> FALSE, dirs |-> <<>>,         name |-> <<"shot", ".", "mp4">>] }

Cwd == <<"/", "home", "user">>

-----------------------------------------------------------------------------
(* Pure functions *)

\* lines 83-84 and 258-259: open(path, 'r', encoding='utf-8').read() reads in
\* text mode with universal newlines: "\r\n" and a lone "\r" come back as "\n".
RECURSIVE read(_)
read(data) ==
    IF data = <<>> THEN <<>>
    ELSE IF Head(data) = "CR"
         THEN IF Len(data) >= 2 /\ data[2] = "LF"
              THEN <<"LF">> \o read(SubSeq(data, 3, Len(data)))
              ELSE <<"LF">> \o read(Tail(data))
         ELSE <<Head(data)>> \o read(Tail(data))

\* line 79 / line 94: Path.exists()
prompt_exists(path) == prompts[path] # Missing

\* Faulty variant of video_exists: the check of line 94 is left out.
video_exists_always(path) == TRUE

video_exists(path) == videos[path] # "missing"

Entry(level, line) == [level |-> level, line |-> line, data |-> <<>>]

EntryWith(level, line, data) == [level |-> level, line |-> line, data |-> data]

NoExc == [type |-> "", line |-> 0, msg |-> <<>>]

Exc(type, line, msg) == [type |-> type, line |-> line, msg |-> msg]

\* Faulty variant of load_prompt: the path given is ignored, the default is read.
load_prompt_default_only(prompt_path) ==
    LET path == DefaultPromptPath
    IN  IF ~prompt_exists(path)
        THEN [raised |-> NoExc, value |-> FallbackPrompt,
              log |-> <<Entry("INFO", 77), Entry("WARNING", 80)>>]
        ELSE IF prompts[path] = Unreadable
        THEN [raised |-> Exc("OSError", 83, <<>>), value |-> <<>>,
              log |-> <<Entry("INFO", 77)>>]
        ELSE [raised |-> NoExc, value |-> read(prompts[path].data),
              log |-> <<Entry("INFO", 77), Entry("INFO", 85)>>]

\* lines 70-86: load_prompt(prompt_path=None). The value is what the call
\* returns, raised the exception it raises instead (an existing path that open()
\* or the UTF-8 decoder rejects), log what it logs.
load_prompt(prompt_path) ==
    LET path == IF prompt_path = None THEN DefaultPromptPath ELSE prompt_path[1]
    IN  IF ~prompt_exists(path)
        THEN [raised |-> NoExc, value |-> FallbackPrompt,
              log |-> <<Entry("INFO", 77), Entry("WARNING", 80)>>]
        ELSE IF prompts[path] = Unreadable
        THEN [raised |-> Exc("OSError", 83, <<>>), value |-> <<>>,
              log |-> <<Entry("INFO", 77)>>]
        ELSE [raised |-> NoExc, value |-> read(prompts[path].data),
              log |-> <<Entry("INFO", 77), Entry("INFO", 85)>>]

\* line 116: video_path.absolute() joins the working directory to a relative
\* path and leaves an absolute one alone; nothing is normalised.
absolute(path) ==
    IF path.abs THEN <<"/">> \o path.dirs \o path.name
    ELSE Cwd \o path.dirs \o path.name

\* line 116: f"file://{video_path.absolute()}"
video_url(path) == <<"file://">> \o absolute(path)

\* Faulty variant of messages: the text component comes first.
messages_text_first(url, fps, prompt_text) ==
    << [role |-> "user",
        content |-> << [type |-> "text", text |-> prompt_text],
                       [type |-> "video", video |-> url, fps |-> fps] >>] >>

\* lines 120-135
messages(url, fps, prompt_text) ==
    << [role |-> "user",
        content |-> << [type |-> "video", video |-> url, fps |-> fps],
                       [type |-> "text", text |-> prompt_text] >>] >>

\* lines 147-153: the keyword arguments of MultiModalConversation.call
request(a, msgs) ==
    [model |-> a.model, messages |-> msgs, temperature |-> a.temperature,
     max_tokens |-> a.max_tokens, top_p |-> 9]

\* lines 183, 266: Path(video_name).stem of Path(args.video).name: the name up
\* to its last dot, unless that dot is the first or the last character.
stem(name) ==
    LET dots == {i \in 1..Len(name) : name[i] = "."}
        last == CHOOSE i \in dots : \A j \in dots : j <= i
    IN  IF dots = {} THEN name
        ELSE IF last = 1 \/ last = Len(name) THEN name
        ELSE SubSeq(name, 1, last - 1)

\* line 182: datetime.now().strftime("%Y%m%d_%H%M%S"): the second the clock is in
strftime(t) == ToString(t \div TicksPerSecond)

\* Faulty variant of base_name: the timestamp is left out.
base_name_no_timestamp(video_name, timestamp) == stem(video_name)

\* line 183: f"{Path(video_name).stem}_{timestamp}"
base_name(video_name, timestamp) == stem(video_name) \o <<"_", timestamp>>

\* lines 188, 204: self.outputs_dir / f"{base_name}.json" (or .txt)
output_path(base, ext) == <<"outputs">> \o base \o <<ext>>

\* line 158: response.status_code != 200
\* Faulty variant of is_failure: only server errors count as failures.
is_failure_5xx_only(resp) == resp.status_code >= 500

is_failure(resp) == resp.status_code # 200

\* line 160: Exception(f"... {response.message}")
api_error(resp) == Exc("Exception", 160, <<"API error: ", resp.message>>)

\* lines 244, 250: `if args.fps:`, `if args.temperature:` are Python
\* truthiness: None and 0.0 are both false.
truthy_float(opt) == opt # None /\ opt[1] # 0

\* lines 247, 256: `if args.model:`, `if args.prompt:`: None and "" are false.
truthy_str(opt) == opt # None /\ opt[1] # ""

\* line 256, for a path: the empty path is false
truthy_path(opt) == opt # None /\ opt[1] # <<>>

\* Faulty variant of json_error_next: the JSON failure is raised to main.
json_error_next_raise == "main_except"

\* lines 200-203: the JSON failure is swallowed and the TXT write comes next
json_error_next == "save_txt"

\* Faulty variant of api_error_next: the handler sends the request again.
api_error_next_retry == "call"

\* lines 175-178 and 278: the handler re-raises to main's except clause
api_error_next == "main_except"

\* Faulty variant of txt_path: the extension of the video is kept.
txt_path_full_name(video_name, timestamp) ==
    output_path(video_name \o <<"_", timestamp>>, ".txt")

\* line 188
json_path(video_name, timestamp) == output_path(base_name(video_name, timestamp), ".json")

\* line 204
txt_path(video_name, timestamp) == output_path(base_name(video_name, timestamp), ".txt")

\* open(path, 'w') creates the file or truncates the one already there
write_file(path, r, complete, data) ==
    {f \in files : f.path # path}
        \cup {[path |-> path, by |-> r, complete |-> complete, data |-> data]}

-----------------------------------------------------------------------------
(* The remote service and the local environment *)

Annotations == {<<"T", "LF", "T">>}

\* What MultiModalConversation.call can give back: a response with a status
\* code, a message and (on success) the content of the first choice, which is
\* absent in a malformed response.
Responses ==
    {[status_code |-> 200, message |-> "", content |-> Some(a)] : a \in Annotations}
        \cup {[status_code |-> 200, message |-> "", content |-> None]}
        \cup {[status_code |-> 400, message |-> "InvalidParameter", content |-> None],
              [status_code |-> 500, message |-> "InternalError", content |-> None]}

WriteOutcomes == {"ok", "open_failed", "write_failed"}

VideoStates == {"missing", "small", "large"}

ArgsDomain ==
    [video : Videos,
     prompt : {None, Some(CustomPromptPath)},
     fps : {None, Some(0), Some(25)},
     model : {None, Some("qwen-vl-plus-latest")},
     temperature : {None, Some(0), Some(7)}]

PlainArgs ==
    [video : Videos, prompt : {None}, fps : {None}, model : {None}, temperature : {None}]

NoSaved == [timestamp |-> "", json_path |-> <<>>, txt_path |-> <<>>]

-----------------------------------------------------------------------------
(* Initial states *)

TypeOK ==
    /\ \A p \in PromptPaths : prompts[p].kind \in {"missing", "unreadable", "file"}
    /\ videos \in [Videos -> VideoStates]
    /\ clock \in 0..MaxClock
    /\ \A r \in Runs : pc[r] \in {"off", "main", "apply_args", "read_prompt", "annotate",
                                  "call", "await", "save_json", "save_txt", "finish",
                                  "main_except", "done"}

\* The prompt files of the driver's runs: none, one that cannot be read, one
\* line, one line ending in "\r\n".
DriverPrompts == {Missing, Unreadable, TextFile(<<"T">>), TextFile(<<"T", "CR", "LF">>)}

\* Files no run names are never read: they are left missing.
InitFiles(active, states) ==
    /\ prompts \in [PromptPaths -> states]
    /\ videos \in [Videos -> VideoStates]
    /\ \A p \in PromptPaths :
          (\A r \in active : p # (IF truthy_path(args[r].prompt)
                                  THEN args[r].prompt[1] ELSE DefaultPromptPath))
              => prompts[p] = Missing
    /\ \A v \in Videos : (\A r \in active : args[r].video # v) => videos[v] = "missing"

InitRuns(active) ==
    /\ files = {}
    /\ clock = 0
    /\ pc = [r \in Runs |-> IF r \in active THEN "main" ELSE "off"]
    /\ annotator = [r \in Runs |-> None]
    /\ prompt = [r \in Runs |-> None]
    /\ sent = [r \in Runs |-> <<>>]
    /\ start_time = [r \in Runs |-> 0]
    /\ response = [r \in Runs |-> None]
    /\ result = [r \in Runs |-> None]
    /\ exc = [r \in Runs |-> NoExc]
    /\ saved = [r \in Runs |-> NoSaved]
    /\ log = [r \in Runs |-> <<>>]
    /\ exit_code = [r \in Runs |-> None]

\* One run, any command line, any state of the files it names.
Init ==
    /\ args \in [Runs -> ArgsDomain]
    /\ \A r \in Runs \ {1} : args[r] = args[1]
    /\ InitFiles({1}, DriverPrompts)
    /\ InitRuns({1})

\* One run of videos/clip.mp4 with default options, over every pair of prompt
\* files of up to MaxLen tokens.
InitPrompt ==
    /\ args \in [Runs -> PlainArgs]
    /\ \A r \in Runs : args[r].video.name = <<"clip", ".", "mp4">>
    /\ prompts \in [PromptPaths -> FileStates]
    /\ videos = [v \in Videos |-> IF v = args[1].video THEN "small" ELSE "missing"]
    /\ InitRuns({1})

\* Two runs side by side with default options, over videos that exist: the
\* first of videos/clip.mp4, the second of any video.
InitPar ==
    /\ args \in [Runs -> PlainArgs]
    /\ args[1].video.name = <<"clip", ".", "mp4">>
    /\ prompts = [p \in PromptPaths |-> Missing]
    /\ videos \in [Videos -> {"missing", "small"}]
    /\ \A v \in Videos : videos[v] = "small" <=> \E r \in Runs : args[r].video = v
    /\ InitRuns(Runs)

-----------------------------------------------------------------------------
(* Steps of a run *)

Goto(r, where) == pc' = [pc EXCEPT ![r] = where]

Emit(r, entries) == log' = [log EXCEPT ![r] = @ \o entries]

\* An exception nobody catches: the interpreter prints the traceback to stderr
\* and the process ends with status 1. Nothing goes through logger.
Uncaught(r, e) ==
    /\ exc' = [exc EXCEPT ![r] = e]
    /\ exit_code' = [exit_code EXCEPT ![r] = Some(1)]
    /\ Goto(r, "done")

\* lines 235-241 and 54-68: the start of main and VideoAnnotator.__init__
Construct(r) ==
    /\ pc[r] = "main"
    /\ Emit(r, <<Entry("INFO", 235), Entry("INFO", 236), Entry("INFO", 237),
                 Entry("INFO", 238)>>)
    /\ \/ /\ annotator' = [annotator EXCEPT ![r] =
                 Some([model |-> MODEL, fps |-> FPS, temperature |-> TEMPERATURE,
                       max_tokens |-> MAX_TOKENS])]
          /\ Goto(r, "apply_args")
          /\ UNCHANGED <<exc, exit_code>>
       \/ \* line 67: mkdir fails
          /\ Uncaught(r, Exc("OSError", 67, <<>>))
          /\ UNCHANGED annotator
    /\ UNCHANGED <<prompts, videos, files, clock, args, prompt, sent, start_time,
                   response, result, saved>>

\* lines 243-252
ApplyArgs(r) ==
    /\ pc[r] = "apply_args"
    /\ LET a0 == annotator[r][1]
           a1 == IF truthy_float(args[r].fps)
                 THEN [a0 EXCEPT !.fps = args[r].fps[1]] ELSE a0
           a2 == IF truthy_str(args[r].model)
                 THEN [a1 EXCEPT !.model = args[r].model[1]] ELSE a1
           a3 == IF truthy_float(args[r].temperature)
                 THEN [a2 EXCEPT !.temperature = args[r].temperature[1]] ELSE a2
       IN  /\ annotator' = [annotator EXCEPT ![r] = Some(a3)]
           /\ Emit(r, (IF truthy_float(args[r].fps) THEN <<Entry("INFO", 246)>> ELSE <<>>)
                   \o (IF truthy_str(args[r].model) THEN <<Entry("INFO", 249)>> ELSE <<>>)
                   \o (IF truthy_float(args[r].temperature)
                       THEN <<Entry("INFO", 252)>> ELSE <<>>))
    /\ Goto(r, "read_prompt")
    /\ UNCHANGED <<prompts, videos, files, clock, args, prompt, sent, start_time,
                   response, result, exc, saved, exit_code>>

\* lines 254-259: main reads the --prompt file itself, outside its try block
ReadPrompt(r) ==
    /\ pc[r] = "read_prompt"
    /\ IF ~truthy_path(args[r].prompt)
       THEN /\ Goto(r, "annotate")
            /\ UNCHANGED <<prompt, exc, exit_code, log>>
       ELSE LET path == args[r].prompt[1] IN
            /\ Emit(r, <<Entry("INFO", 257)>>)
            /\ IF prompts[path] = Missing
               THEN /\ Uncaught(r, Exc("FileNotFoundError", 258, <<>>))
                    /\ UNCHANGED prompt
               ELSE IF prompts[path] = Unreadable
               THEN /\ Uncaught(r, Exc("OSError", 258, <<>>))
                    /\ UNCHANGED prompt
               ELSE /\ prompt' = [prompt EXCEPT ![r] = Some(read(prompts[path].data))]
                    /\ Goto(r, "annotate")
                    /\ UNCHANGED <<exc, exit_code>>
    /\ UNCHANGED <<prompts, videos, files, clock, args, annotator, sent, start_time,
                   response, result, saved>>

\* lines 88-141: annotate_video up to the call: the existence check, the size
\* warning, the default prompt, the URL and the messages
AnnotateEnter(r) ==
    /\ pc[r] = "annotate"
    /\ LET video_path == args[r].video
           a == annotator[r][1]
           loaded == IF prompt[r] = None THEN load_prompt(None)
                     ELSE [raised |-> NoExc, value |-> prompt[r][1], log |-> <<>>]
           sized == <<Entry("INFO", 100)>>
                        \o (IF videos[video_path] = "large"
                            THEN <<Entry("WARNING", 103)>> ELSE <<>>)
       IN  IF ~video_exists(video_path)
           THEN /\ Emit(r, <<Entry("INFO", 92), Entry("ERROR", 95)>>)
                /\ exc' = [exc EXCEPT ![r] = Exc("FileNotFoundError", 96, <<>>)]
                /\ Goto(r, "main_except")
                /\ UNCHANGED <<prompt, start_time>>
           ELSE IF loaded.raised # NoExc
           THEN /\ Emit(r, <<Entry("INFO", 92)>> \o sized \o loaded.log)
                /\ exc' = [exc EXCEPT ![r] = loaded.raised]
                /\ Goto(r, "main_except")
                /\ UNCHANGED <<prompt, start_time>>
           ELSE /\ Emit(r, <<Entry("INFO", 92)>> \o sized \o loaded.log
                           \o <<Entry("INFO", 117), Entry("INFO", 140)>>)
                /\ prompt' = [prompt EXCEPT ![r] = Some(loaded.value)]
                /\ start_time' = [start_time EXCEPT ![r] = clock]
                /\ Goto(r, "call")
                /\ UNCHANGED exc
    /\ UNCHANGED <<prompts, videos, files, clock, args, annotator, sent, response,
                   result, saved, exit_code>>

\* lines 143-153: the request leaves; the run blocks until the service answers
CallApi(r) ==
    /\ pc[r] = "call"
    /\ LET a == annotator[r][1]
       IN  sent' = [sent EXCEPT ![r] =
                Append(@, request(a, messages(video_url(args[r].video), a.fps,
                                              prompt[r][1])))]
    /\ Goto(r, "await")
    /\ UNCHANGED <<prompts, videos, files, clock, args, annotator, prompt, start_time,
                   response, result, exc, saved, log, exit_code>>

\* lines 147-178: the call returns a response or raises (transport fault); the
\* handler of line 175 logs whatever was raised and raises it again
Receive(r) ==
    /\ pc[r] = "await"
    /\ \/ \* the call itself raises
          /\ exc' = [exc EXCEPT ![r] = Exc("ConnectionError", 147, <<>>)]
          /\ Emit(r, <<Entry("ERROR", 176)>>)
          /\ Goto(r, api_error_next)
          /\ UNCHANGED <<result, response>>
       \/ \E resp \in Responses :
            /\ response' = [response EXCEPT ![r] = Some(resp)]
            /\ IF is_failure(resp)
               THEN /\ exc' = [exc EXCEPT ![r] = api_error(resp)]
                    /\ Emit(r, <<Entry("INFO", 156),
                                 EntryWith("ERROR", 159,
                                           <<ToString(resp.status_code), resp.message>>),
                                 EntryWith("ERROR", 176, api_error(resp).msg)>>)
                    /\ Goto(r, api_error_next)
                    /\ UNCHANGED result
               ELSE IF resp.content = None
               THEN \* line 163 raises on a response without choices
                    /\ exc' = [exc EXCEPT ![r] = Exc("TypeError", 163, <<>>)]
                    /\ Emit(r, <<Entry("INFO", 156), Entry("ERROR", 176)>>)
                    /\ Goto(r, api_error_next)
                    /\ UNCHANGED result
               ELSE /\ result' = [result EXCEPT ![r] =
                           Some([content |-> resp.content[1],
                                 processing_time |-> clock - start_time[r],
                                 model |-> annotator[r][1].model,
                                 fps |-> annotator[r][1].fps])]
                    /\ Emit(r, <<Entry("INFO", 156), Entry("INFO", 164)>>)
                    /\ Goto(r, "save_json")
                    /\ UNCHANGED exc
    /\ UNCHANGED <<prompts, videos, files, clock, args, annotator, prompt, sent,
                   start_time, saved, exit_code>>

\* lines 266 and 180-201: save_results takes the timestamp and writes the JSON
SaveJson(r) ==
    /\ pc[r] = "save_json"
    /\ LET video_name == args[r].video.name
           res == result[r][1]
           timestamp == strftime(clock)
           path == json_path(video_name, timestamp)
           record == [video |-> video_name, model |-> res.model, fps |-> res.fps,
                      processing_time |-> res.processing_time,
                      timestamp |-> timestamp, annotation |-> res.content]
       IN  /\ saved' = [saved EXCEPT ![r] =
                  [timestamp |-> timestamp, json_path |-> path, txt_path |-> <<>>]]
           /\ \E outcome \in WriteOutcomes :
                CASE outcome = "ok" ->
                        /\ files' = write_file(path, r, TRUE, Some(record))
                        /\ Emit(r, <<Entry("INFO", 185), Entry("INFO", 199)>>)
                        /\ Goto(r, "save_txt")
                  [] outcome = "open_failed" ->
                        /\ files' = files
                        /\ Emit(r, <<Entry("INFO", 185), Entry("ERROR", 201)>>)
                        /\ Goto(r, json_error_next)
                  [] outcome = "write_failed" ->
                        /\ files' = write_file(path, r, FALSE, None)
                        /\ Emit(r, <<Entry("INFO", 185), Entry("ERROR", 201)>>)
                        /\ Goto(r, json_error_next)
    /\ exc' = [exc EXCEPT ![r] =
                  IF pc'[r] = "main_except" THEN Exc("OSError", 190, <<>>) ELSE @]
    /\ UNCHANGED <<prompts, videos, clock, args, annotator, prompt, sent, start_time,
                   response, result, exit_code>>

\* lines 203-222: the TXT file, under the same base name
SaveTxt(r) ==
    /\ pc[r] = "save_txt"
    /\ LET video_name == args[r].video.name
           res == result[r][1]
           timestamp == saved[r].timestamp
           path == txt_path(video_name, timestamp)
           record == [video |-> video_name, model |-> res.model, fps |-> res.fps,
                      processing_time |-> res.processing_time,
                      date |-> timestamp, body |-> res.content]
       IN  /\ saved' = [saved EXCEPT ![r].txt_path = path]
           /\ \E outcome \in WriteOutcomes :
                CASE outcome = "ok" ->
                        /\ files' = write_file(path, r, TRUE, Some(record))
                        /\ Emit(r, <<Entry("INFO", 214)>>)
                  [] outcome = "open_failed" ->
                        /\ files' = files
                        /\ Emit(r, <<Entry("ERROR", 216)>>)
                  [] outcome = "write_failed" ->
                        /\ files' = write_file(path, r, FALSE, None)
                        /\ Emit(r, <<Entry("ERROR", 216)>>)
    /\ Goto(r, "finish")
    /\ UNCHANGED <<prompts, videos, clock, args, annotator, prompt, sent, start_time,
                   response, result, exc, exit_code>>

\* lines 268-276 and 285: the preview, the last log lines, status 0
MainSuccess(r) ==
    /\ pc[r] = "finish"
    /\ Emit(r, <<Entry("INFO", 275), Entry("INFO", 276)>>)
    /\ exit_code' = [exit_code EXCEPT ![r] = Some(0)]
    /\ Goto(r, "done")
    /\ UNCHANGED <<prompts, videos, files, clock, args, annotator, prompt, sent,
                   start_time, response, result, exc, saved>>

\* lines 278-281: main's except clause
MainExcept(r) ==
    /\ pc[r] = "main_except"
    /\ Emit(r, <<Entry("ERROR", 279)>>)
    /\ exit_code' = [exit_code EXCEPT ![r] = Some(1)]
    /\ Goto(r, "done")
    /\ UNCHANGED <<prompts, videos, files, clock, args, annotator, prompt, sent,
                   start_time, response, result, exc, saved>>

\* Time passes.
Tick ==
    /\ clock < MaxClock
    /\ clock' = clock + 1
    /\ UNCHANGED <<prompts, videos, files, args, pc, annotator, prompt, sent,
                   start_time, response, result, exc, saved, log, exit_code>>

Next ==
    \/ \E r \in Runs : Construct(r)
    \/ \E r \in Runs : ApplyArgs(r)
    \/ \E r \in Runs : ReadPrompt(r)
    \/ \E r \in Runs : AnnotateEnter(r)
    \/ \E r \in Runs : CallApi(r)
    \/ \E r \in Runs : Receive(r)
    \/ \E r \in Runs : SaveJson(r)
    \/ \E r \in Runs : SaveTxt(r)
    \/ \E r \in Runs : MainSuccess(r)
    \/ \E r \in Runs : MainExcept(r)
    \/ Tick

Spec == Init /\ [][Next]_vars

SpecPar == InitPar /\ [][Next]_vars

SpecPrompt == InitPrompt /\ [][Next]_vars

-----------------------------------------------------------------------------
(* Properties *)

Range(seq) == {seq[i] : i \in DOMAIN seq}

Launched == {r \in Runs : pc[r] # "off"}

\* How many entries of run r's log come from the logger calls at `lines`.
Count(r, lines) == Cardinality({i \in DOMAIN log[r] : log[r][i].line \in lines})

Logged(r, level, line) ==
    \E i \in DOMAIN log[r] : log[r][i].level = level /\ log[r][i].line = line

OwnFiles(r) == {f \in files : f.by = r}

InSave == {"save_json", "save_txt", "finish"}

\* C1: when the video path does not exist, the run never sends a request and
\* never creates an output file; it never gets past annotate_video, which logs
\* the error and raises FileNotFoundError (line 96) to main's except clause;
\* and the process ends with status 1.
C1_MissingVideo ==
    \A r \in Launched :
        videos[args[r].video] = "missing" =>
            /\ sent[r] = <<>>
            /\ OwnFiles(r) = {}
            /\ pc[r] \in {"main", "apply_args", "read_prompt", "annotate",
                          "main_except", "done"}
            /\ pc[r] = "main_except" =>
                   /\ exc[r] = Exc("FileNotFoundError", 96, <<>>)
                   /\ Logged(r, "ERROR", 95)
            /\ pc[r] = "done" => exit_code[r] = Some(1)

\* C1 witness: a run over a missing video that went through annotate_video
\* and main's except clause and has exited with status 1.
C1_Witness ==
    \E r \in Launched :
        /\ videos[args[r].video] = "missing"
        /\ pc[r] = "done"
        /\ exc[r] = Exc("FileNotFoundError", 96, <<>>)
        /\ exit_code[r] = Some(1)
        /\ sent[r] = <<>>

NonSuccess(r) == response[r] # None /\ response[r][1].status_code # 200

Complete(r, path) == \E f \in files : f.path = path /\ f.by = r /\ f.complete

\* C3: once annotate_video has returned a result, save_results attempts the
\* JSON write exactly once and the TXT write exactly once whatever the other
\* did, a write that did not complete has its ERROR entry (line 201 or 216) and
\* one that did has its INFO entry (199 or 214), and the process ends with
\* status 0.
C3_IndependentWrites ==
    \A r \in Launched :
        result[r] # None =>
            /\ pc[r] \in InSave \cup {"done"}
            /\ Count(r, {199, 201}) = (IF pc[r] = "save_json" THEN 0 ELSE 1)
            /\ Count(r, {214, 216}) = (IF pc[r] \in {"save_json", "save_txt"} THEN 0 ELSE 1)
            /\ pc[r] # "save_json" =>
                   IF Complete(r, saved[r].json_path)
                   THEN Logged(r, "INFO", 199) ELSE Logged(r, "ERROR", 201)
            /\ pc[r] \in {"finish", "done"} =>
                   IF Complete(r, saved[r].txt_path)
                   THEN Logged(r, "INFO", 214) ELSE Logged(r, "ERROR", 216)
            /\ pc[r] = "done" => exit_code[r] = Some(0)

\* C3 witness: the JSON write failed, the TXT write succeeded, status 0.
C3_Witness ==
    \E r \in Launched :
        /\ pc[r] = "done"
        /\ exit_code[r] = Some(0)
        /\ Logged(r, "ERROR", 201)
        /\ ~Complete(r, saved[r].json_path)
        /\ Complete(r, saved[r].txt_path)

\* C3 witness of the other cases: both writes failed and the status is 0.
C3_WitnessNone ==
    \E r \in Launched :
        /\ pc[r] = "done"
        /\ exit_code[r] = Some(0)
        /\ Logged(r, "ERROR", 201)
        /\ Logged(r, "ERROR", 216)
        /\ OwnFiles(r) = {}

Given(opt, default) == IF opt # None THEN opt[1] ELSE default

\* C4: every request carries the sampling rate, the model and the temperature
\* of the command line where the option was given (for the sampling rate, a
\* value of its domain 0.1-10.0; for the temperature, of 0.0-1.0) and the
\* default where it was not.
C4_OptionsReachTheCall ==
    \A r \in Launched : \A i \in DOMAIN sent[r] :
        /\ sent[r][i].model = Given(args[r].model, MODEL)
        /\ sent[r][i].temperature = Given(args[r].temperature, TEMPERATURE)
        /\ (args[r].fps # None => args[r].fps[1] \in 1..100) =>
               sent[r][i].messages[1].content[1].fps = Given(args[r].fps, FPS)

HasSaved(r) == saved[r].txt_path # <<>>

SameStem(r, q) ==
    LET n == args[r].video.name
        m == args[q].video.name
    IN  SubSeq(n, 1, Len(n) - 2) = SubSeq(m, 1, Len(m) - 2)

\* C5 as stated: a file of the outputs directory written by one run is never
\* opened for writing by another run.
C5_NeverOverwritten ==
    [][\A f \in files : \A g \in files' : g.path = f.path => g.by = f.by]_vars

\* C5 amended: two runs open the same output path if and only if their videos
\* have the same stem and their save_results took the same timestamp (the same
\* second); with different stems or different timestamps their two pairs of
\* paths are four distinct paths, so that one run can overwrite a file of
\* another only in the first case.
C5_CollideOnlyInSameSecond ==
    \A r, q \in Launched :
        (r # q /\ HasSaved(r) /\ HasSaved(q)) =>
            LET same == SameStem(r, q) /\ saved[r].timestamp = saved[q].timestamp
                mine == {saved[r].json_path, saved[r].txt_path}
                theirs == {saved[q].json_path, saved[q].txt_path}
            IN  /\ same => (saved[r].json_path = saved[q].json_path
                            /\ saved[r].txt_path = saved[q].txt_path)
                /\ ~same => mine \cap theirs = {}
                /\ Cardinality(mine) = 2

\* C5 witness: two runs over videos of the same stem saved in different
\* seconds, and the four files are all there.
C5_Witness ==
    \E r, q \in Launched :
        /\ r # q /\ SameStem(r, q)
        /\ pc[r] = "done" /\ pc[q] = "done"
        /\ saved[r].timestamp # saved[q].timestamp
        /\ Complete(r, saved[r].json_path) /\ Complete(r, saved[r].txt_path)
        /\ Complete(q, saved[q].json_path) /\ Complete(q, saved[q].txt_path)
        /\ Cardinality(files) = 4

CallFailed(r) == exc[r].line \in {147, 160, 163}

\* C6: a run sends at most one request: after a call that failed (the call
\* raised, the status was not 200, or the response was malformed) the run is
\* in main's except clause or has exited with status 1, and after one that
\* succeeded it is in save_results or beyond; the request count stays at one.
C6_AtMostOneCall ==
    \A r \in Launched :
        /\ Len(sent[r]) <= 1
        /\ Len(sent[r]) = 1 <=> pc[r] \in {"await"} \cup InSave
                                 \/ CallFailed(r) \/ result[r] # None
        /\ CallFailed(r) =>
               /\ pc[r] \in {"main_except", "done"}
               /\ result[r] = None
               /\ pc[r] = "done" => exit_code[r] = Some(1)
        /\ result[r] # None => pc[r] \in InSave \cup {"done"}

\* C6 witness: a run whose one call raised and which has exited with status 1.
C6_Witness ==
    \E r \in Launched :
        /\ Len(sent[r]) = 1
        /\ exc[r].line = 147
        /\ pc[r] = "done"
        /\ exit_code[r] = Some(1)

HasError(r) == \E i \in DOMAIN log[r] : log[r][i].level = "ERROR"

\* C7: a run that failed on a missing video (line 96), on a missing --prompt
\* file (line 258) or on the remote call (lines 147, 160, 163) has emitted an
\* ERROR log entry by the time the process has ended, and a write that failed
\* has its ERROR entry before the run goes on.
C7_EveryFailureLogged ==
    \A r \in Launched :
        /\ (pc[r] = "done" /\ exc[r].line \in {96, 147, 160, 163}) => HasError(r)
        /\ (pc[r] = "done" /\ exc[r] = Exc("FileNotFoundError", 258, <<>>)) => HasError(r)
        /\ (pc[r] \in {"save_txt", "finish", "done"} /\ result[r] # None
              /\ ~Complete(r, saved[r].json_path)) => Logged(r, "ERROR", 201)
        /\ (pc[r] \in {"finish", "done"} /\ result[r] # None
              /\ ~Complete(r, saved[r].txt_path)) => Logged(r, "ERROR", 216)

PromptArgs == {None, Some(CustomPromptPath)}

Newlines == {"CR", "LF"}

IsText(x) == x \notin Newlines

Occurrences(seq, x) == Cardinality({i \in DOMAIN seq : seq[i] = x})

CrLfPairs(seq) ==
    Cardinality({i \in DOMAIN seq : i < Len(seq) /\ seq[i] = "CR" /\ seq[i + 1] = "LF"})

\* `text` is `data` with every "\r\n" and every other "\r" turned into "\n".
NewlinesTranslated(data, text) ==
    /\ "CR" \notin Range(text)
    /\ SelectSeq(text, IsText) = SelectSeq(data, IsText)
    /\ Occurrences(text, "LF")
           = Occurrences(data, "CR") + Occurrences(data, "LF") - CrLfPairs(data)
    /\ "CR" \notin Range(data) => text = data

LoadPromptCalled == \E r \in Launched : Logged(r, "INFO", 77)

\* C8 as stated: load_prompt never raises, returns the fallback string if and
\* only if the resolved path does not exist, and returns exactly the content
\* of the file when it exists.
C8_FallbackIffMissing ==
    LoadPromptCalled =>
        \A arg \in PromptArgs :
            LET path == IF arg = None THEN DefaultPromptPath ELSE arg[1]
                res == load_prompt(arg)
            IN  /\ prompts[path] = Missing => res.raised = NoExc
                /\ (res.raised = NoExc /\ res.value = FallbackPrompt)
                       <=> prompts[path] = Missing
                /\ prompts[path] # Missing =>
                       /\ res.raised = NoExc
                       /\ prompts[path].kind = "file"
                       /\ res.value = prompts[path].data

\* C8 amended: load_prompt returns the fallback string whenever the resolved
\* path (the given one, or the default) does not exist, and does not raise
\* then. When the path is a readable UTF-8 text file it returns the file's text
\* with every "\r\n" and lone "\r" read as "\n", which is exactly the content
\* when the file holds no carriage return; so it returns the fallback string
\* for an existing file only when that string is the file's text. When the
\* path exists and cannot be read as text it raises. What annotate_video
\* sends on is that return value.
C8_LoadPrompt ==
    \A r \in Launched :
        Logged(r, "INFO", 77) =>
            \A arg \in PromptArgs :
                LET path == IF arg = None THEN DefaultPromptPath ELSE arg[1]
                    res == load_prompt(arg)
                IN  /\ prompts[path] = Missing =>
                        res.raised = NoExc /\ res.value = FallbackPrompt
                    /\ prompts[path].kind = "file" =>
                        /\ res.raised = NoExc
                        /\ NewlinesTranslated(prompts[path].data, res.value)
                        /\ res.value = FallbackPrompt =>
                               prompts[path].data = FallbackPrompt
                    /\ prompts[path] = Unreadable => res.raised # NoExc
                    /\ (arg = None /\ pc[r] \notin {"annotate", "main_except", "done"}) =>
                        res.raised = NoExc /\ prompt[r] = Some(res.value)
                    /\ (arg = None /\ res.raised # NoExc) =>
                        pc[r] \in {"main_except", "done"} /\ exc[r] = res.raised

\* C8 witness: the default prompt file holds "\r\n"; the run loaded it as "\n"
\* and sent it.
C8_Witness ==
    \E r \in Launched :
        /\ prompts[DefaultPromptPath] = TextFile(<<"CR", "LF">>)
        /\ Logged(r, "INFO", 85)
        /\ prompt[r] = Some(<<"LF">>)
        /\ Len(sent[r]) = 1
        /\ sent[r][1].messages[1].content[2].text = <<"LF">>

\* C9: every request holds one message, of role user, whose content is the
\* video component (the file:// URL of the absolute path of the video given,
\* and the annotator's sampling rate) followed by the text component (the
\* prompt text as annotate_video holds it).
C9_Payload ==
    \A r \in Launched : \A i \in DOMAIN sent[r] :
        LET msgs == sent[r][i].messages
            v == args[r].video
        IN  /\ Len(msgs) = 1
            /\ msgs[1].role = "user"
            /\ Len(msgs[1].content) = 2
            /\ msgs[1].content[1].type = "video"
            /\ msgs[1].content[1].video
                   = <<"file://">> \o (IF v.abs THEN <<"/">> ELSE Cwd) \o v.dirs \o v.name
            /\ msgs[1].content[1].fps = annotator[r][1].fps
            /\ msgs[1].content[2].type = "text"
            /\ msgs[1].content[2].text = prompt[r][1]
            /\ videos[v] # "missing"

\* C9 witness: a request for a relative video path with --fps 2.5 and a
\* --prompt file.
C9_Witness ==
    \E r \in Launched :
        /\ Len(sent[r]) = 1
        /\ ~args[r].video.abs
        /\ args[r].fps = Some(25)
        /\ args[r].prompt # None
        /\ sent[r][1].messages[1].content[1].fps = 25
        /\ sent[r][1].messages[1].content[2].text = <<"T", "LF">>

\* C10: in save_results the JSON path and the TXT path are the same sequence
\* but for the extension: the outputs directory, the video name without its
\* extension, "_" and the one timestamp the call took; the timestamp field of
\* the JSON record is that timestamp.
C10_SharedBaseName ==
    \A r \in Launched :
        HasSaved(r) =>
            LET j == saved[r].json_path
                t == saved[r].txt_path
                n == args[r].video.name
                shared == <<"outputs">> \o SubSeq(n, 1, Len(n) - 2)
                              \o <<"_", saved[r].timestamp>>
            IN  /\ j = shared \o <<".json">>
                /\ t = shared \o <<".txt">>
                /\ \A f \in files :
                       (f.path = j /\ f.by = r /\ f.complete) =>
                           f.data[1].timestamp = saved[r].timestamp

\* C10 witness: both files of a run are written, the clock having moved
\* between the two writes.
C10_Witness ==
    \E r \in Launched :
        /\ pc[r] = "done"
        /\ Complete(r, saved[r].json_path)
        /\ Complete(r, saved[r].txt_path)
        /\ strftime(clock) # saved[r].timestamp

====
